---- MODULE Spec2Model ----
(***************************************************************************)
(* A model of the brawlstars.js Client (src/src/Client.js): construction,  *)
(* the ten public operations, the request each one hands to the transport  *)
(* (ladybug-fetch) and the promise each one returns.                       *)
(*                                                                         *)
(* JavaScript strings that the code inspects character by character (tags, *)
(* counts) are sequences of one-character strings; strings the code only   *)
(* concatenates (the URL) are TLA+ strings.                                *)
(***************************************************************************)
EXTENDS Integers, Sequences, FiniteSets, Bags, TLC

(* ------------------------------ bounds -------------------------------- *)

MaxTagLen == 3
MaxCountLen == 2
MaxListLen == 2
MaxClients == 2
MaxCalls == 2

(* --------------------------- JavaScript values ------------------------ *)

JSUndefined == [t |-> "undefined", n |-> 0, s |-> <<>>]
JSNull == [t |-> "null", n |-> 0, s |-> <<>>]
JSNaN == [t |-> "nan", n |-> 0, s |-> <<>>]
JSNum(n) == [t |-> "number", n |-> n, s |-> <<>>]
JSStr(s) == [t |-> "string", n |-> 0, s |-> s]
JSBool(b) == [t |-> "boolean", n |-> IF b THEN 1 ELSE 0, s |-> <<>>]

\* ToBoolean: what `if(v)`, `!v` and `a && b` test.
ToBoolean(v) ==
  CASE v.t = "undefined" -> FALSE
    [] v.t = "null" -> FALSE
    [] v.t = "nan" -> FALSE
    [] v.t = "number" -> v.n # 0
    [] v.t = "boolean" -> v.n = 1
    [] v.t = "string" -> Len(v.s) > 0

Digits == <<"0", "1", "2", "3", "4", "5", "6", "7", "8", "9">>

IsDigit(c) == \E i \in 1..10 : Digits[i] = c

DigitValue(c) == (CHOOSE i \in 1..10 : Digits[i] = c) - 1

RECURSIVE TrimStart(_)
TrimStart(s) == IF Len(s) > 0 /\ s[1] = " " THEN TrimStart(Tail(s)) ELSE s

RECURSIVE TrimEnd(_)
TrimEnd(s) ==
  IF Len(s) > 0 /\ s[Len(s)] = " " THEN TrimEnd(SubSeq(s, 1, Len(s) - 1)) ELSE s

RECURSIVE DecimalValue(_)
DecimalValue(s) ==
  IF s = <<>> THEN 0
  ELSE 10 * DecimalValue(SubSeq(s, 1, Len(s) - 1)) + DigitValue(s[Len(s)])

\* ToNumber on a string: white space is trimmed, the empty string is 0, a run
\* of decimal digits is its value, anything else is NaN.
StringToNumber(s) ==
  LET t == TrimEnd(TrimStart(s))
  IN IF t = <<>> THEN JSNum(0)
     ELSE IF \A i \in 1..Len(t) : IsDigit(t[i]) THEN JSNum(DecimalValue(t))
     ELSE JSNaN

ToNumber(v) ==
  CASE v.t = "undefined" -> JSNaN
    [] v.t = "null" -> JSNum(0)
    [] v.t = "nan" -> JSNaN
    [] v.t = "number" -> v
    [] v.t = "boolean" -> JSNum(v.n)
    [] v.t = "string" -> StringToNumber(v.s)

\* The global isNaN(v): ToNumber(v) is NaN.
isNaN(v) == ToNumber(v).t = "nan"

(* ------------------------------- tags --------------------------------- *)

LowerCase == <<"a", "b", "c", "d", "e", "f", "g", "h", "i", "j", "k", "l", "m",
               "n", "o", "p", "q", "r", "s", "t", "u", "v", "w", "x", "y", "z">>

UpperCase == <<"A", "B", "C", "D", "E", "F", "G", "H", "I", "J", "K", "L", "M",
               "N", "O", "P", "Q", "R", "S", "T", "U", "V", "W", "X", "Y", "Z">>

IsLower(c) == \E i \in 1..26 : LowerCase[i] = c

toUpperCase(c) ==
  IF IsLower(c) THEN UpperCase[CHOOSE i \in 1..26 : LowerCase[i] = c] ELSE c

\* The accepted alphabet: the digits and the letters of 0289PYLQGRJCUV.
Alphabet ==
  {Digits[i] : i \in 1..10} \cup {"P", "Y", "L", "Q", "G", "R", "J", "C", "U", "V"}

StripHash(s) == IF Len(s) > 0 /\ s[1] = "#" THEN Tail(s) ELSE s

\* clean(tag): strip a leading #, uppercase, rewrite every O to 0.
clean(tag) ==
  LET s == StripHash(tag)
  IN [i \in 1..Len(s) |->
        LET u == toUpperCase(s[i]) IN IF u = "O" THEN "0" ELSE u]

\* validate(tag): false for the empty tag and for a tag that, cleaned, has a
\* character outside the alphabet.
validate(tag) ==
  /\ Len(tag) > 0
  /\ \A i \in 1..Len(clean(tag)) : clean(tag)[i] \in Alphabet

(* --------------------------- domain objects --------------------------- *)

\* A parsed JSON body: one record, a list of records, or the discovery
\* envelope {data: {endpoints: [...]}}.
JSONObject(raw) == [kind |-> "object", raw |-> raw, items |-> <<>>]
JSONList(raws) ==
  [kind |-> "list", raw |-> "", items |-> [i \in 1..Len(raws) |-> JSONObject(raws[i])]]
JSONEnvelope(names) ==
  [kind |-> "envelope", raw |-> "", items |-> [i \in 1..Len(names) |-> JSONObject(names[i])]]
NoBody == [kind |-> "none", raw |-> "", items |-> <<>>]

\* new Player(client, data), new Club(client, data): the record and the
\* client that produced it.
Player(client, data) == [cls |-> "Player", client |-> client, data |-> data]
Club(client, data) == [cls |-> "Club", client |-> client, data |-> data]
NoObject == [cls |-> "none", client |-> 0, data |-> NoBody]

(* ------------------------------- state -------------------------------- *)

VARIABLES
  clients,      \* the Client instances constructed so far
  token,        \* token[c]: the `token` property of Client c
  constructed,  \* constructed[c]: options.token as passed to c's constructor
  calls         \* the invocations of public operations, a bag: one
                \* invocation never reads another, so their order is not kept

vars == <<clients, token, constructed, calls>>

ClientIds == 1..MaxClients

NoOptions == [t |-> "undefined", token |-> JSUndefined]
NullOptions == [t |-> "null", token |-> JSUndefined]
Options(tok) == [t |-> "object", token |-> tok]

Init ==
  /\ clients = {}
  /\ token = [c \in ClientIds |-> JSUndefined]
  /\ constructed = [c \in ClientIds |-> JSUndefined]
  /\ calls = EmptyBag

(* ---------------------------- construction ---------------------------- *)

\* What `new Client(options)` throws, "" when it completes. `options = {}`
\* replaces only undefined; reading `.token` of null is a TypeError.
constructorThrows(options) ==
  IF options.t = "null" THEN "TypeError: Cannot read property 'token' of null"
  ELSE IF ~ToBoolean(options.token) THEN "Error: Missing Authorization Token."
  ELSE ""

\* new Client(options)
Construct(options) ==
  LET c == Cardinality(clients) + 1
      thrown == constructorThrows(options)
  IN /\ c \in ClientIds
     /\ IF thrown # ""
        THEN UNCHANGED <<clients, token, constructed>>
        ELSE /\ clients' = clients \cup {c}
             /\ token' = [token EXCEPT ![c] = options.token]
             /\ constructed' = [constructed EXCEPT ![c] = options.token]
     /\ UNCHANGED calls

\* Object.defineProperty(this, "token", { value }) leaves writable false: a
\* later `client.token = v` is ignored (or throws in strict code) and the
\* property keeps its value.
\* Variant: the property defined writable, so that an assignment takes effect.
assignTokenWritable(tokens, c, v) == [tokens EXCEPT ![c] = v]

assignToken(tokens, c, v) == tokens

\* client.token = v, attempted by the caller
AssignToken(c, v) ==
  /\ c \in clients
  /\ token' = assignToken(token, c, v)
  /\ UNCHANGED <<clients, constructed, calls>>

(* ------------------------------ requests ------------------------------ *)

NoArgs == [tag |-> <<>>, count |-> JSUndefined, brawler |-> JSUndefined,
           query |-> JSUndefined]

NewCall(c, op, args) ==
  [client |-> c, op |-> op, args |-> args, requests |-> <<>>,
   status |-> "pending", err |-> "", one |-> NoObject, many |-> <<>>,
   body |-> NoBody, answers |-> <<>>]

\* Promise.reject(new Error(...)) returned before any request is built.
Reject(call, err) == [call EXCEPT !.status = "rejected", !.err = err]

\* The URL ladybug is called with.
url(endpoint) == "https://brawlapi.cf/api/" \o endpoint

\* _get(endpoint, query): one GET with the query and the Authorization header.
_get(call, endpoint, query) ==
  [call EXCEPT !.requests =
     Append(@, [url |-> url(endpoint),
                query |-> query,
                auth |-> token[call.client]])]

Param(k, v) == [k |-> k, v |-> v]

(* ------------------------- the public operations ---------------------- *)

Invoke(call) == /\ calls' = calls (+) SetToBag({call})
                /\ UNCHANGED <<clients, token, constructed>>

getEndpoints(c) == _get(NewCall(c, "getEndpoints", NoArgs), "", <<>>)

\* Variant: getPlayer without the validate guard.
getPlayerUnchecked(c, tag) ==
  _get(NewCall(c, "getPlayer", [NoArgs EXCEPT !.tag = tag]),
       "player", <<Param("tag", JSStr(clean(tag)))>>)

\* Variant: getPlayer sending the tag as given, not cleaned.
getPlayerRaw(c, tag) ==
  LET call == NewCall(c, "getPlayer", [NoArgs EXCEPT !.tag = tag])
  IN IF ~validate(tag) THEN Reject(call, "Error: Invalid Tag.")
     ELSE _get(call, "player", <<Param("tag", JSStr(tag))>>)

getPlayer(c, tag) ==
  LET call == NewCall(c, "getPlayer", [NoArgs EXCEPT !.tag = tag])
  IN IF ~validate(tag) THEN Reject(call, "Error: Invalid Tag.")
     ELSE _get(call, "player", <<Param("tag", JSStr(clean(tag)))>>)

getClub(c, tag) ==
  LET call == NewCall(c, "getClub", [NoArgs EXCEPT !.tag = tag])
  IN IF ~validate(tag) THEN Reject(call, "Error: Invalid Tag.")
     ELSE _get(call, "club", <<Param("tag", JSStr(clean(tag)))>>)

about(c) == _get(NewCall(c, "about", NoArgs), "about", <<>>)

\* `count && isNaN(count)`
countRejected(count) == ToBoolean(count) /\ isNaN(count)

\* const query = {}; if(count) query["count"] = count;
\* if(brawler) query["brawler"] = brawler;
topQuery(count, brawler) ==
  (IF ToBoolean(count) THEN <<Param("count", count)>> ELSE <<>>)
  \o (IF ToBoolean(brawler) THEN <<Param("brawler", brawler)>> ELSE <<>>)

getTopPlayers(c, count, brawler) ==
  LET call == NewCall(c, "getTopPlayers",
                      [NoArgs EXCEPT !.count = count, !.brawler = brawler])
  IN IF countRejected(count) THEN Reject(call, "TypeError: Count must be a number.")
     ELSE _get(call, "/leaderboards/players", topQuery(count, brawler))

getTopClubs(c, count) ==
  LET call == NewCall(c, "getTopClubs", [NoArgs EXCEPT !.count = count])
  IN IF countRejected(count) THEN Reject(call, "TypeError: Count must be a number.")
     ELSE _get(call, "/leaderboards/clubs", topQuery(count, JSUndefined))

_events(call, type) == _get(call, "events", <<Param("type", JSStr(type))>>)

getUpcomingEvents(c) ==
  _events(NewCall(c, "getUpcomingEvents", NoArgs), <<"u", "p", "c", "o", "m", "i", "n", "g">>)

getCurrentEvents(c) ==
  _events(NewCall(c, "getCurrentEvents", NoArgs), <<"c", "u", "r", "r", "e", "n", "t">>)

getMisc(c) == _get(NewCall(c, "getMisc", NoArgs), "misc", <<>>)

\* { query }: the key is always present, whatever its value.
clubSearch(c, query) ==
  _get(NewCall(c, "clubSearch", [NoArgs EXCEPT !.query = query]),
       "clubSearch", <<Param("query", query)>>)

(* ------------------------- the transport answers ---------------------- *)

Resolved(body) == [ok |-> TRUE, err |-> "", body |-> body]
Failed(err) == [ok |-> FALSE, err |-> err, body |-> NoBody]

\* res.map((x) => new Player(this, x)) / new Club(this, x)
\* Variant: a callback that has lost `this`.
wrapPlayersDetached(c, items) == [i \in 1..Len(items) |-> Player(0, items[i])]

wrapPlayers(c, items) == [i \in 1..Len(items) |-> Player(c, items[i])]

\* Variant: the list wrapped in reverse order.
wrapClubsReversed(c, items) ==
  [i \in 1..Len(items) |-> Club(c, items[Len(items) + 1 - i])]

wrapClubs(c, items) == [i \in 1..Len(items) |-> Club(c, items[i])]

Resolve(call) == [call EXCEPT !.status = "resolved"]

\* The .then callback each operation chains on _get, applied to res.body.
onBody(call, body) ==
  LET c == call.client
      list == body.kind = "list"
      noMap == Reject(call, "TypeError: res.map is not a function")
  IN CASE call.op = "getEndpoints" ->
            IF body.kind = "envelope"
            THEN [Resolve(call) EXCEPT !.body = [body EXCEPT !.kind = "list"]]
            ELSE Reject(call, "TypeError: Cannot read property 'endpoints' of undefined")
       [] call.op = "getPlayer" -> [Resolve(call) EXCEPT !.one = Player(c, body)]
       [] call.op = "getClub" -> [Resolve(call) EXCEPT !.one = Club(c, body)]
       [] call.op = "getTopPlayers" ->
            IF list THEN [Resolve(call) EXCEPT !.many = wrapPlayers(c, body.items)]
            ELSE noMap
       [] call.op \in {"getTopClubs", "clubSearch"} ->
            IF list THEN [Resolve(call) EXCEPT !.many = wrapClubs(c, body.items)]
            ELSE noMap
       [] OTHER -> [Resolve(call) EXCEPT !.body = body]

\* A rejection of the ladybug promise passes through every .then that has no
\* rejection handler.
\* Variant: a rejection handler that replaces the transport's error.
onRejectedWrapped(call, err) == Reject(call, "Error: Request failed.")

\* Variant: a rejection handler that sends the request once more.
onRejectedRetry(call, err) ==
  IF Len(call.requests) < 2
  THEN [call EXCEPT !.requests = Append(@, @[1])]
  ELSE Reject(call, err)

onRejected(call, err) == Reject(call, err)

\* The promise chain of one invocation when the transport settles.
settle(call, answer) ==
  LET heard == [call EXCEPT !.answers = Append(@, answer)]
  IN IF answer.ok THEN onBody(heard, answer.body) ELSE onRejected(heard, answer.err)

\* The transport settles the request of one pending invocation.
TransportAnswer(call, answer) ==
  /\ call \in BagToSet(calls)
  /\ call.status = "pending"
  /\ Len(call.requests) > Len(call.answers)
  /\ calls' = (calls (-) SetToBag({call})) (+) SetToBag({settle(call, answer)})
  /\ UNCHANGED <<clients, token, constructed>>

(* ------------------------------- actions ------------------------------ *)

GetEndpoints(c) == c \in clients /\ Invoke(getEndpoints(c))
GetPlayer(c, tag) == c \in clients /\ Invoke(getPlayer(c, tag))
GetClub(c, tag) == c \in clients /\ Invoke(getClub(c, tag))
About(c) == c \in clients /\ Invoke(about(c))
GetTopPlayers(c, count, brawler) == c \in clients /\ Invoke(getTopPlayers(c, count, brawler))
GetTopClubs(c, count) == c \in clients /\ Invoke(getTopClubs(c, count))
GetUpcomingEvents(c) == c \in clients /\ Invoke(getUpcomingEvents(c))
GetCurrentEvents(c) == c \in clients /\ Invoke(getCurrentEvents(c))
GetMisc(c) == c \in clients /\ Invoke(getMisc(c))
ClubSearch(c, query) == c \in clients /\ Invoke(clubSearch(c, query))

(* ------------------------------- inputs ------------------------------- *)

RECURSIVE SeqsUpTo(_, _)
SeqsUpTo(S, n) ==
  IF n = 0 THEN {<<>>}
  ELSE LET shorter == SeqsUpTo(S, n - 1)
       IN shorter \cup {Append(s, x) : s \in shorter, x \in S}

\* The token offered to the n-th Client: each Client gets one of its own.
TokenFor(n) == JSStr(<<"t", Digits[n + 1]>>)
OtherToken == JSStr(<<"x">>)
CtorOptions ==
  {NoOptions, NullOptions, Options(JSUndefined), Options(JSStr(<<>>)),
   Options(TokenFor(Cardinality(clients) + 1))}

TagChars == {"#", "0", "P", "p", "O", "o", "a", "!"}
Tags == SeqsUpTo(TagChars, MaxTagLen)

CountChars == {"2", "a", " "}
Counts ==
  {JSUndefined, JSNull, JSNaN, JSNum(0), JSNum(20), JSBool(TRUE), JSBool(FALSE)}
  \cup {JSStr(s) : s \in SeqsUpTo(CountChars, MaxCountLen)}

Names == {JSUndefined, JSStr(<<>>), JSStr(<<"s">>)}

RawRecords == {"rA", "rB"}
Errors == {"NetworkError: ECONNRESET", "HTTPError: 500"}

Answers ==
  {Failed(e) : e \in Errors}
  \cup {Resolved(JSONObject(r)) : r \in RawRecords}
  \cup {Resolved(JSONList(l)) : l \in SeqsUpTo(RawRecords, MaxListLen)}
  \cup {Resolved(JSONEnvelope(<<"player", "club">>))}

\* The body the API documents for each operation's endpoint.
apiBody(op) ==
  CASE op = "getEndpoints" -> JSONEnvelope(<<"player", "club">>)
    [] op \in {"getTopPlayers", "getTopClubs", "clubSearch"} -> JSONList(<<"rA", "rB">>)
    [] OTHER -> JSONObject("rA")

apiAnswers(op) ==
  {Failed("NetworkError: ECONNRESET"), Resolved(apiBody(op))}
  \cup (IF op \in {"getPlayer", "getClub"} THEN {Resolved(JSONObject("rB"))} ELSE {})

(* --------------------------- specifications --------------------------- *)

\* Several Clients, several invocations in flight at once on a valid and
\* an invalid input, the API answering each with its documented body or a failure.
Free == BagCardinality(calls) < MaxCalls

SomeTags == {<<>>, <<"#", "p", "o">>}
SomeCounts == {JSNum(20), JSStr(<<"a">>)}

Next ==
  \/ \E o \in CtorOptions : Construct(o)
  \/ \E c \in ClientIds : AssignToken(c, OtherToken)
  \/ Free /\ \E c \in ClientIds : GetEndpoints(c)
  \/ Free /\ \E c \in ClientIds, tag \in SomeTags : GetPlayer(c, tag)
  \/ Free /\ \E c \in ClientIds, tag \in SomeTags : GetClub(c, tag)
  \/ Free /\ \E c \in ClientIds : About(c)
  \/ Free /\ \E c \in ClientIds, count \in SomeCounts :
               GetTopPlayers(c, count, JSStr(<<"s">>))
  \/ Free /\ \E c \in ClientIds, count \in SomeCounts : GetTopClubs(c, count)
  \/ Free /\ \E c \in ClientIds : GetUpcomingEvents(c)
  \/ Free /\ \E c \in ClientIds : GetCurrentEvents(c)
  \/ Free /\ \E c \in ClientIds : GetMisc(c)
  \/ Free /\ \E c \in ClientIds : ClubSearch(c, JSStr(<<"s">>))
  \/ \E call \in BagToSet(calls) : \E a \in apiAnswers(call.op) : TransportAnswer(call, a)

Spec == Init /\ [][Next]_vars

\* One Client and one invocation, over every input and every answer.
InitCall ==
  /\ clients = {1}
  /\ token = [c \in ClientIds |-> IF c = 1 THEN TokenFor(1) ELSE JSUndefined]
  /\ constructed = [c \in ClientIds |-> IF c = 1 THEN TokenFor(1) ELSE JSUndefined]
  /\ calls = EmptyBag

Idle == calls = EmptyBag

NextCall ==
  \/ Idle /\ GetEndpoints(1)
  \/ Idle /\ \E tag \in Tags : GetPlayer(1, tag)
  \/ Idle /\ \E tag \in Tags : GetClub(1, tag)
  \/ Idle /\ About(1)
  \/ Idle /\ \E count \in Counts, brawler \in Names : GetTopPlayers(1, count, brawler)
  \/ Idle /\ \E count \in Counts : GetTopClubs(1, count)
  \/ Idle /\ GetUpcomingEvents(1)
  \/ Idle /\ GetCurrentEvents(1)
  \/ Idle /\ GetMisc(1)
  \/ Idle /\ \E query \in Names : ClubSearch(1, query)
  \/ \E call \in BagToSet(calls) : \E a \in Answers : TransportAnswer(call, a)

CallSpec == InitCall /\ [][NextCall]_vars

(* ------------------------------- claims ------------------------------- *)

Calls == BagToSet(calls)

TagOps == {"getPlayer", "getClub"}
CountOps == {"getTopPlayers", "getTopClubs"}
ListOps == {"getTopPlayers", "getTopClubs", "clubSearch"}

\* The transport was invoked by this invocation.
Sent(call) == call.requests # <<>>

\* C1: getPlayer and getClub on a tag that validate refuses (the empty tag and
\* ### among them) return a rejected promise and hand nothing to the
\* transport.
C1_InvalidTagRejectedBeforeRequest ==
  /\ ~validate(<<>>)
  /\ ~validate(<<"#", "#", "#">>)
  /\ \A call \in Calls :
       (call.op \in TagOps /\ ~validate(call.args.tag)) =>
         /\ call.status = "rejected"
         /\ call.err = "Error: Invalid Tag."
         /\ ~Sent(call)

C1_Witness ==
  \E call \in Calls :
    /\ call.op = "getPlayer"
    /\ call.args.tag = <<"#", "#", "#">>
    /\ call.status = "rejected"
    /\ ~Sent(call)

\* A count the caller provided: anything but undefined and null.
Provided(count) == count.t \notin {"undefined", "null"}

\* A numeric count: a number other than NaN, or a string holding a decimal
\* numeral.
Numeric(count) ==
  \/ count.t = "number"
  \/ /\ count.t = "string"
     /\ TrimEnd(TrimStart(count.s)) # <<>>
     /\ StringToNumber(count.s).t = "number"

\* C2: getTopPlayers and getTopClubs on a count that is provided and not
\* numeric reject and hand nothing to the transport.
C2_NonNumericCountRejected ==
  \A call \in Calls :
    (call.op \in CountOps /\ Provided(call.args.count) /\ ~Numeric(call.args.count)) =>
      /\ call.status = "rejected"
      /\ ~Sent(call)

\* C3: when the transport rejects with an error, the operation rejects with
\* that same error.
C3_TransportErrorPropagates ==
  \A call \in Calls :
    (call.answers # <<>> /\ ~call.answers[1].ok) =>
      /\ call.status = "rejected"
      /\ call.err = call.answers[1].err

C3_Witness ==
  \E call \in Calls :
    /\ call.op = "getClub"
    /\ call.answers = <<Failed("HTTPError: 500")>>
    /\ call.status = "rejected"
    /\ call.err = "HTTPError: 500"

\* The input of the invocation is one the operation's contract accepts.
ValidationPasses(call) ==
  /\ call.op \in TagOps => validate(call.args.tag)
  /\ call.op \in CountOps => (~Provided(call.args.count) \/ Numeric(call.args.count))

\* C4: an invocation issues at most one request, exactly one when its input
\* is valid, none after the transport has answered, and it is settled once
\* the transport has answered.
C4_OneRequestNoRetry ==
  \A call \in Calls :
    /\ Len(call.requests) <= 1
    /\ ValidationPasses(call) => Len(call.requests) = 1
    /\ Len(call.answers) <= Len(call.requests)
    /\ call.answers # <<>> => call.status \in {"resolved", "rejected"}

C4_Witness ==
  /\ \E call \in Calls :
       /\ call.answers = <<Failed("NetworkError: ECONNRESET")>>
       /\ Len(call.requests) = 1
       /\ call.status = "rejected"
  /\ \E call \in Calls :
       /\ ~ValidationPasses(call)
       /\ call.requests = <<>>
       /\ call.status = "rejected"

\* C5: the list operations resolve to one object per element of the list the
\* transport returned, in the same order; to the empty sequence for the
\* empty list.
C5_ListWrappedInOrder ==
  \A call \in Calls :
    (/\ call.op \in ListOps
     /\ call.answers # <<>>
     /\ call.answers[1].ok
     /\ call.answers[1].body.kind = "list") =>
      LET raw == call.answers[1].body.items
      IN /\ call.status = "resolved"
         /\ Len(call.many) = Len(raw)
         /\ \A i \in 1..Len(raw) :
              /\ call.many[i].data = raw[i]
              /\ call.many[i].cls = IF call.op = "getTopPlayers" THEN "Player" ELSE "Club"

C5_Witness ==
  \E call \in Calls :
    /\ call.op = "getTopClubs"
    /\ call.answers = <<Resolved(JSONList(<<"rA", "rB">>))>>
    /\ call.status = "resolved"
    /\ call.many = <<Club(call.client, JSONObject("rA")), Club(call.client, JSONObject("rB"))>>

\* C6: getPlayer and getClub resolve to one Player, one Club, wrapping the
\* record the transport returned and referring to the Client the operation
\* was called on; so does every element the list operations produce.
C6_ObjectRefersToItsClient ==
  \A call \in Calls :
    (call.status = "resolved") =>
      /\ call.op = "getPlayer" => call.one = Player(call.client, call.answers[1].body)
      /\ call.op = "getClub" => call.one = Club(call.client, call.answers[1].body)
      /\ call.op \in ListOps =>
           \A i \in 1..Len(call.many) : call.many[i].client = call.client
      /\ call.client \in clients

C6_Witness ==
  \E a \in Calls, b \in Calls :
    /\ a.client # b.client
    /\ a.op = "getPlayer" /\ a.status = "resolved" /\ a.one.client = a.client
    /\ a.one.data = JSONObject("rB")
    /\ b.op = "getTopPlayers" /\ b.status = "resolved"
    /\ b.many[2] = Player(b.client, JSONObject("rB"))

\* C7: every Client holds the non-empty token it was constructed with, and
\* every request carries that token as its Authorization header.
C7_TokenImmutable ==
  /\ \A c \in clients :
       /\ ToBoolean(token[c])
       /\ token[c] = constructed[c]
  /\ \A c \in ClientIds \ clients : token[c] = JSUndefined
  /\ \A call \in Calls :
       /\ call.client \in clients
       /\ \A i \in 1..Len(call.requests) :
            call.requests[i].auth = constructed[call.client]

C7_Witness ==
  /\ clients = {1, 2}
  /\ \E a \in Calls, b \in Calls :
       /\ a # b
       /\ a.client = 1 /\ b.client = 1
       /\ a.status = "pending" /\ b.status = "resolved"
       /\ a.requests[1].auth = TokenFor(1)
       /\ b.requests[1].auth = TokenFor(1)

\* The endpoint the interface assigns to each operation.
endpointOf(op) ==
  CASE op = "getEndpoints" -> ""
    [] op = "getPlayer" -> "player"
    [] op = "getClub" -> "club"
    [] op = "about" -> "about"
    [] op = "getTopPlayers" -> "leaderboards/players"
    [] op = "getTopClubs" -> "leaderboards/clubs"
    [] op \in {"getUpcomingEvents", "getCurrentEvents"} -> "events"
    [] op = "getMisc" -> "misc"
    [] op = "clubSearch" -> "clubSearch"

\* C8: every request goes to /api/{endpoint} on the base host, with the
\* endpoint of its operation and no other path.
C8_PathIsApiEndpoint ==
  \A call \in Calls :
    \A i \in 1..Len(call.requests) :
      /\ call.requests[i].url = "https://brawlapi.cf" \o "/api/" \o endpointOf(call.op)
      /\ call.op = "getUpcomingEvents" =>
           call.requests[i].query = <<Param("type", JSStr(<<"u", "p", "c", "o", "m", "i", "n", "g">>))>>
      /\ call.op = "getCurrentEvents" =>
           call.requests[i].query = <<Param("type", JSStr(<<"c", "u", "r", "r", "e", "n", "t">>))>>

\* A normalized tag: no leading #, no lowercase letter, no O, only characters
\* of the alphabet.
Normalized(s) ==
  /\ s = <<>> \/ s[1] # "#"
  /\ \A i \in 1..Len(s) : ~IsLower(s[i]) /\ s[i] # "O" /\ s[i] \in Alphabet

\* C9: the query getPlayer and getClub send is exactly {tag: clean(tag)}, of
\* a tag that validate accepts; the value sent is normalized and clean
\* leaves it unchanged.
C9_SentTagIsClean ==
  \A call \in Calls :
    (call.op \in TagOps /\ Sent(call)) =>
      LET q == call.requests[1].query
      IN /\ validate(call.args.tag)
         /\ q = <<Param("tag", JSStr(clean(call.args.tag)))>>
         /\ Normalized(q[1].v.s)
         /\ clean(q[1].v.s) = q[1].v.s

C9_Witness ==
  \E call \in Calls :
    /\ call.op = "getPlayer"
    /\ call.args.tag = <<"#", "p", "o">>
    /\ call.requests[1].query = <<Param("tag", JSStr(<<"P", "0">>))>>

\* A value that is empty or absent.
Empty(v) == v.t \in {"undefined", "null"} \/ v = JSStr(<<>>)

\* C10: no query handed to the transport has a key whose value is empty or
\* absent; stated for the operations that build their query from a count, a
\* brawler, a search string or an event type.
C10_NoEmptyQueryKey ==
  \A call \in Calls :
    call.op \notin TagOps =>
      \A i \in 1..Len(call.requests) :
        LET q == call.requests[i].query
        IN \A k \in 1..Len(q) : ~Empty(q[k].v)

====
